---- MODULE Spec2Model ----
(***************************************************************************)
(* AgentPaySDK (src/sdk/AgentPaySDK.py): a client of the AgentEscrow       *)
(* contract.  The model has two client instances talking to one ledger     *)
(* node.  Every public method is an operation; a mutating method is split  *)
(* at its network calls (gas price, nonce, submit, receipt) so that calls  *)
(* of the two instances interleave as they can on a real node.             *)
(*                                                                         *)
(* Numbers that do not fit a machine integer (wei amounts: 1.5 ether is    *)
(* 15 * 10^17 wei) are kept as decimals [m, e] standing for m * 10^e.      *)
(***************************************************************************)
EXTENDS Integers, Sequences, FiniteSets, TLC

VARIABLES account, pc, cur, result, trace, lastKey,
          txCount, pending, receipts, netGasPrice, started

vars == <<account, pc, cur, result, trace, lastKey,
          txCount, pending, receipts, netGasPrice, started>>

clientVars == <<account, pc, cur, result, trace, lastKey, started>>
chainVars == <<txCount, pending, receipts, netGasPrice>>

(***************************************************************************)
(* Bounds of the model.                                                    *)
(***************************************************************************)
\* operations begun, over both clients
MaxCalls == 2
\* the gas prices the node may quote
GasPrices == {1, 2}

Clients == {"c1", "c2"}
\* Python's None, and an int where a value may also be None
None == [none |-> TRUE]
PyInt(n) == [int |-> n]

(***************************************************************************)
(* Program constants: the fixed gas budgets of the four transactions.      *)
(***************************************************************************)
CreateTaskGas == 500000
SubmitDeliverableGas == 200000
ScoreAndResolveGas == 300000
CancelTaskGas == 200000
\* 'ether' = 10^18 wei
EtherExp == 18

(***************************************************************************)
(* Decimals: [m |-> mantissa, e |-> exponent], value m * 10^e.             *)
(***************************************************************************)
Dec(m, e) == [m |-> m, e |-> e]

RECURSIVE Norm(_)
\* canonical form: no trailing zero in the mantissa, zero is 0 * 10^0
Norm(d) ==
    IF d.m = 0 THEN Dec(0, 0)
    ELSE IF d.m % 10 = 0 THEN Norm(Dec(d.m \div 10, d.e + 1))
    ELSE d

\* w3.to_wei(amount, 'ether') on a non-negative amount with at most 18 decimals
to_wei(amount) == Norm(Dec(amount.m, amount.e + EtherExp))

\* w3.from_wei(wei, 'ether'): a Decimal
from_wei(wei) == Norm(Dec(wei.m, wei.e - EtherExp))

\* float(x): the double nearest to x, named by its shortest decimal form
\* (exact for the mantissas of the model, all below 10^15)
float(x) == [float |-> Norm(x)]

(***************************************************************************)
(* Keys, accounts and addresses.                                           *)
(***************************************************************************)
\* a private key as the caller writes it: hex digits, with or without 0x
PrivateKeys == {[hex |-> "k1", prefix |-> FALSE], [hex |-> "k2", prefix |-> TRUE]}

AddrIds == {"a1", "a2"}
AddressOfKey(k) == IF k = "k1" THEN "a1" ELSE "a2"

\* an address string: the 20 bytes it names and the letter case it is written in
Address(id, case) == [id |-> id, case |-> case]
BadAddress == Address("bad", "lower")
AddressInputs == {Address("a2", "lower"), Address("a2", "checksum"), BadAddress}
ContractAddress == Address("escrow", "checksum")

IsAddress(a) == a.id # "bad"
\* Web3.to_checksum_address on a valid address
to_checksum_address(a) == Address(a.id, "checksum")

\* set_signer, lines 39-40: the 0x prefix is added when missing
NormalizeKey(pk) == IF ~pk.prefix THEN [pk EXCEPT !.prefix = TRUE] ELSE pk

\* w3.eth.account.from_key: the key and the address derived from it
from_key(pk) == [key |-> pk.hex, address |-> Address(AddressOfKey(pk.hex), "checksum")]

\* a plausible bug: an identity once configured is kept
SetSignerKeepsFirst(old, pk) == IF old # None THEN old ELSE from_key(NormalizeKey(pk))

\* set_signer: the new value of self.account
SetSignerAccount(old, pk) == from_key(NormalizeKey(pk))

(***************************************************************************)
(* What a call gives back to its caller.                                   *)
(***************************************************************************)
NoResult == [kind |-> "none"]
Return(v) == [kind |-> "return", value |-> v]
Raise(exc, msg) == [kind |-> "raise", exc |-> exc, msg |-> msg]

MutatingOps == {"create_task", "submit_deliverable", "score_and_resolve", "cancel_task"}
ReadOps == {"get_task", "get_balance"}

\* the message of the signer check of each mutating method
SignerMessage(op) ==
    CASE op = "create_task" -> "Signer required for creating tasks"
      [] op = "submit_deliverable" -> "Signer required for submitting deliverables"
      [] op = "score_and_resolve" -> "Signer required for scoring tasks"
      [] op = "cancel_task" -> "Signer required for cancelling tasks"

\* a plausible bug: the signer check is left out
SignerCheckSkipped(acct) == FALSE

\* `not self.account`
SignerMissing(acct) == acct = None

(***************************************************************************)
(* Scores.  An int is [t |-> "int", v |-> n]; a float is kept in tenths,   *)
(* [t |-> "float", v |-> 505] is 50.5; a str is [t |-> "str", v |-> 0].    *)
(***************************************************************************)
IntScore(n) == [t |-> "int", v |-> n]
FloatScore(n) == [t |-> "float", v |-> n]
StrScore == [t |-> "str", v |-> 0]
Scores == {IntScore(-1), IntScore(0), IntScore(100), IntScore(101),
           FloatScore(505), FloatScore(1005), StrScore}

\* a plausible bug: the bounds taken exclusive
ScoreInRangeExclusive(score) ==
    IF score.t = "int" THEN 0 < score.v /\ score.v < 100
    ELSE 0 < score.v /\ score.v < 1000

\* `0 <= score <= 100` on a number
ScoreInRange(score) ==
    IF score.t = "int" THEN 0 <= score.v /\ score.v <= 100
    ELSE 0 <= score.v /\ score.v <= 1000

\* contract.functions.scoreAndResolve(task_id, score) matches the arguments against
\* the ABI when it is built, before the gas price and the nonce are fetched: a
\* uint256 argument is taken only from a non-negative int
IsUint(x) == x.t = "int" /\ x.v >= 0

TaskIds == {42}
Descriptions == {"desc"}
DeliverableHashes == {"hash123"}
\* amount_eth: 1.5
Amounts == {Dec(15, -1)}

(***************************************************************************)
(* The local part of a mutating method, up to the first network call:      *)
(* either the exception it raises, or the transaction it is about to       *)
(* build.                                                                  *)
(***************************************************************************)
Go(fn, args, value, gas, from) ==
    [kind |-> "go", fn |-> fn, args |-> args, value |-> value, gas |-> gas, from |-> from]

AttributeError == Raise("AttributeError", "'NoneType' object has no attribute 'address'")

create_task_local(acct, payee_address, description, amount_eth) ==
    IF SignerMissing(acct) THEN Raise("Exception", SignerMessage("create_task"))
    ELSE IF ~IsAddress(payee_address) THEN Raise("ValueError", "Unknown format")
    ELSE IF acct = None THEN AttributeError
    ELSE Go("createTask",
            [payee |-> to_checksum_address(payee_address), description |-> description],
            to_wei(amount_eth), CreateTaskGas, acct.address)

submit_deliverable_local(acct, task_id, deliverable_hash) ==
    IF SignerMissing(acct) THEN Raise("Exception", SignerMessage("submit_deliverable"))
    ELSE IF acct = None THEN AttributeError
    ELSE Go("submitDeliverable", [taskId |-> task_id, deliverableHash |-> deliverable_hash],
            Dec(0, 0), SubmitDeliverableGas, acct.address)

score_and_resolve_local(acct, task_id, score) ==
    IF SignerMissing(acct) THEN Raise("Exception", SignerMessage("score_and_resolve"))
    ELSE IF score.t = "str"
        THEN Raise("TypeError", "'<=' not supported between instances of 'int' and 'str'")
    ELSE IF ~ScoreInRange(score) THEN Raise("ValueError", "Score must be between 0 and 100")
    ELSE IF ~IsUint(score)
        THEN Raise("Web3ValidationError", "Could not identify the intended function")
    ELSE IF acct = None THEN AttributeError
    ELSE Go("scoreAndResolve", [taskId |-> task_id, score |-> score.v],
            Dec(0, 0), ScoreAndResolveGas, acct.address)

cancel_task_local(acct, task_id) ==
    IF SignerMissing(acct) THEN Raise("Exception", SignerMessage("cancel_task"))
    ELSE IF acct = None THEN AttributeError
    ELSE Go("cancelTask", [taskId |-> task_id], Dec(0, 0), CancelTaskGas, acct.address)

(***************************************************************************)
(* Transactions, the ledger node and receipts.                             *)
(***************************************************************************)
\* build_transaction: the fields the method passes, `to` and `data` from the contract
build_transaction(go, gasPrice, nonce) ==
    [from |-> go.from, to |-> ContractAddress, value |-> go.value, gas |-> go.gas,
     gasPrice |-> gasPrice, nonce |-> nonce, data |-> [fn |-> go.fn, args |-> go.args]]

\* w3.eth.account.sign_transaction(tx, key)
sign_transaction(tx, key) == [tx |-> tx, signedBy |-> key]

\* the hash of a signed transaction, and its sender as the node recovers it
TxHash(raw) == [keccak |-> raw]
Sender(raw) == AddressOfKey(raw.signedBy)

\* HexBytes.hex(): the hex string of the bytes
hex(bytes) == [hex |-> bytes]

\* event logs
TaskCreated(id) == [event |-> "TaskCreated", args |-> [taskId |-> id]]
TaskResolved(id, payee, refund) ==
    [event |-> "TaskResolved",
     args |-> [taskId |-> id, payeeAmount |-> payee, refundAmount |-> refund]]
Transfer == [event |-> "Transfer", args |-> [none |-> TRUE]]

\* the logs a mined transaction may carry: a reverted one (status 0) carries none
LogChoices(fn, status) ==
    IF status = 0 THEN {<<>>}
    ELSE IF fn = "createTask"
        THEN {<<>>, <<Transfer, TaskCreated(42)>>, <<TaskCreated(7), TaskCreated(42)>>}
    ELSE IF fn = "scoreAndResolve"
        THEN {<<>>, <<Transfer, TaskResolved(42, Dec(12, 17), Dec(3, 17))>>}
    ELSE {<<>>}

Receipt(raw, status, logs) ==
    [transactionHash |-> TxHash(raw), status |-> status, logs |-> logs]

\* the pending transactions of the same sender and nonce
Rivals(raw) == {p \in pending : Sender(p) = Sender(raw) /\ p.tx.nonce = raw.tx.nonce}

\* what the node answers to eth_sendRawTransaction
NodeVerdict(raw) ==
    IF raw.tx.nonce < txCount[Sender(raw)] THEN "nonce too low"
    ELSE IF raw \in pending THEN "already known"
    ELSE IF \E p \in Rivals(raw) : raw.tx.gasPrice <= p.tx.gasPrice
        THEN "replacement transaction underpriced"
    ELSE "accepted"

(***************************************************************************)
(* Decoding a receipt into the method's return value.                      *)
(***************************************************************************)
\* contract.events.<name>().process_receipt(receipt): the logs of that event, in order
process_receipt(name, receipt) == SelectSeq(receipt.logs, LAMBDA l : l.event = name)

\* a plausible bug: the last matching event is taken
create_task_result_last(receipt) ==
    LET task_created_event == process_receipt("TaskCreated", receipt)
    IN [taskId |-> IF task_created_event # <<>>
                   THEN PyInt(task_created_event[Len(task_created_event)].args.taskId)
                   ELSE None,
        txHash |-> hex(receipt.transactionHash)]

\* create_task, lines 79-85
create_task_result(receipt) ==
    LET task_created_event == process_receipt("TaskCreated", receipt)
    IN [taskId |-> IF task_created_event # <<>>
                   THEN PyInt(task_created_event[1].args.taskId)
                   ELSE None,
        txHash |-> hex(receipt.transactionHash)]

\* submit_deliverable, lines 115-117, and cancel_task, lines 190-192
tx_hash_result(receipt) == [txHash |-> hex(receipt.transactionHash)]

\* a plausible bug: the amounts are returned in base units
score_and_resolve_result_wei(receipt) ==
    LET task_resolved_event == process_receipt("TaskResolved", receipt)
    IN IF task_resolved_event # <<>>
       THEN [txHash |-> hex(receipt.transactionHash),
             payeeAmount |-> float(task_resolved_event[1].args.payeeAmount),
             refundAmount |-> float(task_resolved_event[1].args.refundAmount)]
       ELSE [txHash |-> hex(receipt.transactionHash),
             payeeAmount |-> float(Dec(0, 0)),
             refundAmount |-> float(Dec(0, 0))]

\* score_and_resolve, lines 151-164
score_and_resolve_result(receipt) ==
    LET task_resolved_event == process_receipt("TaskResolved", receipt)
    IN IF task_resolved_event # <<>>
       THEN [txHash |-> hex(receipt.transactionHash),
             payeeAmount |-> float(from_wei(task_resolved_event[1].args.payeeAmount)),
             refundAmount |-> float(from_wei(task_resolved_event[1].args.refundAmount))]
       ELSE [txHash |-> hex(receipt.transactionHash),
             payeeAmount |-> float(Dec(0, 0)),
             refundAmount |-> float(Dec(0, 0))]

\* the return value of a mutating method, from the receipt it waited for
MethodResult(op, receipt) ==
    CASE op = "create_task" -> create_task_result(receipt)
      [] op = "score_and_resolve" -> score_and_resolve_result(receipt)
      [] OTHER -> tx_hash_result(receipt)

(***************************************************************************)
(* get_task: the tuple the contract returns, and its decoding.             *)
(***************************************************************************)
StatusCodes == {0, 1, 2, 3, 4}
TaskTuple(code) ==
    <<Address("a1", "checksum"), Address("a2", "checksum"), Dec(15, 17), "desc", code,
      1700000000, 1700000060, "hash123", 80, code = 2>>

\* a plausible bug: a lookup that has no default
status_map_strict(code) ==
    CASE code = 0 -> "Created"
      [] code = 1 -> "Submitted"
      [] code = 2 -> "Resolved"
      [] OTHER -> "Cancelled"

\* status_map.get(code, 'Unknown')
status_map_get(code) ==
    CASE code = 0 -> "Created"
      [] code = 1 -> "Submitted"
      [] code = 2 -> "Resolved"
      [] code = 3 -> "Cancelled"
      [] OTHER -> "Unknown"

\* get_task, lines 208-219
get_task_decode(task) ==
    [payer |-> task[1], payee |-> task[2], amount |-> float(from_wei(task[3])),
     description |-> task[4], status |-> status_map_get(task[5]),
     createdAt |-> task[6], submittedAt |-> task[7], deliverableHash |-> task[8],
     score |-> task[9], resolved |-> task[10]]

Balances == {Dec(0, 0), Dec(15, 17)}

(***************************************************************************)
(* State.                                                                  *)
(*   account[c]   self.account of client c: None or [key, address]         *)
(*   pc[c]        where client c's current call stands ("idle": no call)   *)
(*   cur[c]       the current (or last) call: method, arguments, locals    *)
(*                (go: the transaction about to be built; after: the       *)
(*                (sender, nonce) pairs that had a receipt when the call   *)
(*                began; task: the tuple getTask answered)                 *)
(*   result[c]    what the last call returned or raised                    *)
(*   trace[c]     the steps the current (or last) call has performed       *)
(*   lastKey[c]   the key most recently given to the constructor or to     *)
(*                set_signer ("" when none was)                            *)
(*   txCount, pending, receipts, netGasPrice   the ledger node             *)
(*   started      the operations begun so far                              *)
(***************************************************************************)
NoCall == [op |-> "none", args |-> None, go |-> None, after |-> {},
           gasPrice |-> 0, raw |-> None, tx_hash |-> None, task |-> None]

\* __init__, lines 32-35, with or without a private key
InitKeys == {[hex |-> "k1", prefix |-> TRUE]}

\* every client constructed with private_key = k (None: without one)
InitWith(k) ==
    /\ account = [c \in Clients |-> IF k = None THEN None ELSE SetSignerAccount(None, k)]
    /\ lastKey = [c \in Clients |-> IF k = None THEN "" ELSE k.hex]
    /\ pc = [c \in Clients |-> "idle"]
    /\ cur = [c \in Clients |-> NoCall]
    /\ result = [c \in Clients |-> NoResult]
    /\ trace = [c \in Clients |-> <<>>]
    /\ txCount = [a \in AddrIds |-> 0]
    /\ pending = {}
    /\ receipts = {}
    /\ netGasPrice = 1
    /\ started = 0

Init == \E k \in InitKeys \cup {None} : InitWith(k)

\* the (sender, nonce) pairs of the transactions that have a receipt
Receipted == {<<Sender(r.transactionHash.keccak), r.transactionHash.keccak.tx.nonce>> :
                r \in receipts}

\* client c, idle, begins an operation that has no local state to keep
Begins(c, op, args) ==
    /\ pc[c] = "idle"
    /\ started < MaxCalls
    /\ started' = started + 1
    /\ cur' = [cur EXCEPT ![c] = [NoCall EXCEPT !.op = op, !.args = args]]

(***************************************************************************)
(* set_signer                                                              *)
(***************************************************************************)
set_signer(c, private_key) ==
    /\ Begins(c, "set_signer", [private_key |-> private_key])
    /\ account' = [account EXCEPT ![c] = SetSignerAccount(account[c], private_key)]
    /\ lastKey' = [lastKey EXCEPT ![c] = private_key.hex]
    /\ result' = [result EXCEPT ![c] = Return(None)]
    /\ trace' = [trace EXCEPT ![c] = <<>>]
    /\ UNCHANGED <<pc, chainVars>>

(***************************************************************************)
(* The mutating methods: the local part, then the network steps.           *)
(***************************************************************************)
StartCall(c, op, args, local) ==
    /\ pc[c] = "idle"
    /\ started < MaxCalls
    /\ started' = started + 1
    /\ trace' = [trace EXCEPT ![c] = <<>>]
    /\ IF local.kind = "go"
       THEN /\ cur' = [cur EXCEPT ![c] =
                         [NoCall EXCEPT !.op = op, !.args = args,
                                        !.go = local, !.after = Receipted]]
            /\ pc' = [pc EXCEPT ![c] = "gas_price"]
            /\ result' = [result EXCEPT ![c] = NoResult]
       ELSE /\ cur' = [cur EXCEPT ![c] = [NoCall EXCEPT !.op = op, !.args = args]]
            /\ result' = [result EXCEPT ![c] = local]
            /\ UNCHANGED pc
    /\ UNCHANGED <<account, lastKey, chainVars>>

create_task(c, payee_address, description, amount_eth) ==
    StartCall(c, "create_task",
              [payee_address |-> payee_address, description |-> description,
               amount_eth |-> amount_eth],
              create_task_local(account[c], payee_address, description, amount_eth))

submit_deliverable(c, task_id, deliverable_hash) ==
    StartCall(c, "submit_deliverable",
              [task_id |-> task_id, deliverable_hash |-> deliverable_hash],
              submit_deliverable_local(account[c], task_id, deliverable_hash))

score_and_resolve(c, task_id, score) ==
    StartCall(c, "score_and_resolve", [task_id |-> task_id, score |-> score],
              score_and_resolve_local(account[c], task_id, score))

cancel_task(c, task_id) ==
    StartCall(c, "cancel_task", [task_id |-> task_id],
              cancel_task_local(account[c], task_id))

\* the call of client c ends with an exception raised at `step`
Fails(c, step, entry, exc, msg) ==
    /\ trace' = [trace EXCEPT ![c] = Append(@, entry)]
    /\ result' = [result EXCEPT ![c] = Raise(exc, msg)]
    /\ pc' = [pc EXCEPT ![c] = "idle"]

\* a plausible bug: a gas price written into the code
GasPriceFixed(live) == 1

\* 'gasPrice': self.w3.eth.gas_price, read from the node in every call
GasPriceUsed(live) == live

gas_price(c) ==
    /\ pc[c] = "gas_price"
    /\ \/ /\ cur' = [cur EXCEPT ![c].gasPrice = GasPriceUsed(netGasPrice)]
          /\ trace' = [trace EXCEPT ![c] =
                         Append(@, [step |-> "gas_price", ok |-> TRUE, val |-> netGasPrice])]
          /\ pc' = [pc EXCEPT ![c] = "get_transaction_count"]
          /\ UNCHANGED result
       \/ /\ Fails(c, "gas_price", [step |-> "gas_price", ok |-> FALSE],
                   "ConnectionError", "gas_price")
          /\ UNCHANGED cur
    /\ UNCHANGED <<account, lastKey, started, chainVars>>

\* a plausible bug: a nonce written into the code
NonceFixed(live) == 0

\* 'nonce': self.w3.eth.get_transaction_count(...), read from the node in every call
NonceUsed(live) == live

\* the nonce fetch, then build_transaction and sign_transaction
get_transaction_count(c) ==
    /\ pc[c] = "get_transaction_count"
    /\ \/ LET addr == account[c].address
              live == txCount[addr.id]
              tx == build_transaction(cur[c].go, cur[c].gasPrice,
                                      NonceUsed(live))
              raw == sign_transaction(tx, account[c].key)
          IN /\ cur' = [cur EXCEPT ![c].raw = raw]
             /\ trace' = [trace EXCEPT ![c] =
                   @ \o <<[step |-> "get_transaction_count", ok |-> TRUE,
                           addr |-> addr, val |-> live],
                          [step |-> "sign_transaction", ok |-> TRUE,
                           tx |-> tx, key |-> account[c].key]>>]
             /\ pc' = [pc EXCEPT ![c] = "send_raw_transaction"]
             /\ UNCHANGED result
       \/ /\ Fails(c, "get_transaction_count",
                   [step |-> "get_transaction_count", ok |-> FALSE],
                   "ConnectionError", "get_transaction_count")
          /\ UNCHANGED cur
    /\ UNCHANGED <<account, lastKey, started, chainVars>>

send_raw_transaction(c) ==
    /\ pc[c] = "send_raw_transaction"
    /\ LET raw == cur[c].raw
           verdict == NodeVerdict(raw)
       IN \/ /\ verdict = "accepted"
             /\ pending' = (pending \ Rivals(raw)) \cup {raw}
             /\ cur' = [cur EXCEPT ![c].tx_hash = TxHash(raw)]
             /\ trace' = [trace EXCEPT ![c] =
                   Append(@, [step |-> "send_raw_transaction", ok |-> TRUE, raw |-> raw])]
             /\ pc' = [pc EXCEPT ![c] = "wait_for_transaction_receipt"]
             /\ UNCHANGED result
          \/ /\ verdict # "accepted"
             /\ Fails(c, "send_raw_transaction",
                      [step |-> "send_raw_transaction", ok |-> FALSE, raw |-> raw],
                      "ValueError", verdict)
             /\ UNCHANGED <<cur, pending>>
          \/ \* the node refuses it for a reason of its own (funds, a failed dry run)
             /\ Fails(c, "send_raw_transaction",
                      [step |-> "send_raw_transaction", ok |-> FALSE, raw |-> raw],
                      "ValueError", "rejected")
             /\ UNCHANGED <<cur, pending>>
    /\ UNCHANGED <<account, lastKey, started, txCount, receipts, netGasPrice>>

\* the wait for the receipt, then the decoding and the return
wait_for_transaction_receipt(c) ==
    /\ pc[c] = "wait_for_transaction_receipt"
    /\ \/ \E receipt \in receipts :
             /\ receipt.transactionHash = cur[c].tx_hash
             /\ trace' = [trace EXCEPT ![c] =
                   @ \o <<[step |-> "wait_for_transaction_receipt", ok |-> TRUE,
                           receipt |-> receipt],
                          [step |-> "decode", ok |-> TRUE]>>]
             /\ result' = [result EXCEPT ![c] = Return(MethodResult(cur[c].op, receipt))]
             /\ pc' = [pc EXCEPT ![c] = "idle"]
       \/ /\ \A receipt \in receipts : receipt.transactionHash # cur[c].tx_hash
          /\ Fails(c, "wait_for_transaction_receipt",
                   [step |-> "wait_for_transaction_receipt", ok |-> FALSE],
                   "TimeExhausted", "not in the chain after 120 seconds")
    /\ UNCHANGED <<account, lastKey, cur, started, chainVars>>

(***************************************************************************)
(* The read-only methods: one call to the node each.                       *)
(***************************************************************************)
\* a plausible bug: .transact() where .call() is meant
get_task_transact(task_id) ==
    <<[step |-> "send_raw_transaction", ok |-> TRUE,
       fn |-> "getTask", args |-> [taskId |-> task_id]]>>

\* self.contract.functions.getTask(task_id).call()
get_task_call(task_id) ==
    <<[step |-> "call", ok |-> TRUE, fn |-> "getTask", args |-> [taskId |-> task_id]]>>

get_task(c, task_id) ==
    /\ pc[c] = "idle"
    /\ started < MaxCalls
    /\ started' = started + 1
    /\ trace' = [trace EXCEPT ![c] = get_task_call(task_id)]
    /\ \/ \E code \in StatusCodes :
             LET task == TaskTuple(code)
             IN /\ cur' = [cur EXCEPT ![c] =
                             [NoCall EXCEPT !.op = "get_task", !.args = [task_id |-> task_id],
                                            !.task = [tuple |-> task]]]
                /\ result' = [result EXCEPT ![c] = Return(get_task_decode(task))]
       \/ /\ cur' = [cur EXCEPT ![c] =
                       [NoCall EXCEPT !.op = "get_task", !.args = [task_id |-> task_id]]]
          /\ result' = [result EXCEPT ![c] = Raise("ConnectionError", "call")]
    /\ UNCHANGED <<account, lastKey, pc, chainVars>>

get_balance(c, address) ==
    /\ Begins(c, "get_balance", [address |-> address])
    /\ IF ~IsAddress(address)
       THEN /\ trace' = [trace EXCEPT ![c] = <<>>]
            /\ result' = [result EXCEPT ![c] = Raise("ValueError", "Unknown format")]
       ELSE /\ trace' = [trace EXCEPT ![c] =
                  <<[step |-> "get_balance", ok |-> TRUE,
                     addr |-> to_checksum_address(address)]>>]
            /\ \/ \E balance_wei \in Balances :
                     result' = [result EXCEPT ![c] = Return(float(from_wei(balance_wei)))]
               \/ result' = [result EXCEPT ![c] = Raise("ConnectionError", "get_balance")]
    /\ UNCHANGED <<account, lastKey, pc, chainVars>>

(***************************************************************************)
(* The ledger: a pending transaction whose nonce is the sender's next one  *)
(* is mined, successfully or reverted; the gas price moves.                *)
(***************************************************************************)
Mine ==
    \E raw \in pending, status \in {0, 1} :
      \E logs \in LogChoices(raw.tx.data.fn, status) :
        /\ raw.tx.nonce = txCount[Sender(raw)]
        /\ txCount' = [txCount EXCEPT ![Sender(raw)] = @ + 1]
        /\ pending' = pending \ {raw}
        /\ receipts' = receipts \cup {Receipt(raw, status, logs)}
        /\ UNCHANGED <<netGasPrice, clientVars>>

GasPriceMoves ==
    /\ \E p \in GasPrices : p # netGasPrice /\ netGasPrice' = p
    /\ UNCHANGED <<txCount, pending, receipts, clientVars>>

(***************************************************************************)
(* Spec: one client instance used from one thread, every method, every     *)
(* kind of argument.                                                       *)
(***************************************************************************)
Next ==
    \/ \E pk \in PrivateKeys : set_signer("c1", pk)
    \/ \E a \in AddressInputs, d \in Descriptions, amt \in Amounts :
          create_task("c1", a, d, amt)
    \/ \E t \in TaskIds, h \in DeliverableHashes : submit_deliverable("c1", t, h)
    \/ \E t \in TaskIds, sc \in Scores : score_and_resolve("c1", t, sc)
    \/ \E t \in TaskIds : cancel_task("c1", t)
    \/ gas_price("c1")
    \/ get_transaction_count("c1")
    \/ send_raw_transaction("c1")
    \/ wait_for_transaction_receipt("c1")
    \/ \E t \in TaskIds : get_task("c1", t)
    \/ \E a \in AddressInputs : get_balance("c1", a)
    \/ Mine
    \/ GasPriceMoves

Spec == Init /\ [][Next]_vars

(***************************************************************************)
(* ConcSpec: two client instances holding the same key, each used from its *)
(* own thread, creating and scoring tasks with well-formed arguments.     *)
(***************************************************************************)
ConcInit == \E k \in InitKeys : InitWith(k)

ConcNext ==
    \/ \E c \in Clients, d \in Descriptions, amt \in Amounts :
          create_task(c, Address("a2", "checksum"), d, amt)
    \/ \E c \in Clients, t \in TaskIds : score_and_resolve(c, t, IntScore(100))
    \/ \E c \in Clients : gas_price(c)
    \/ \E c \in Clients : get_transaction_count(c)
    \/ \E c \in Clients : send_raw_transaction(c)
    \/ \E c \in Clients : wait_for_transaction_receipt(c)
    \/ Mine
    \/ GasPriceMoves

ConcSpec == ConcInit /\ [][ConcNext]_vars

(***************************************************************************)
(* Properties.                                                             *)
(***************************************************************************)
StepNames(c) == [i \in 1..Len(trace[c]) |-> trace[c][i].step]

\* the entries of client c's trace that are the given step
Entries(c, step) == {trace[c][i] : i \in {j \in 1..Len(trace[c]) : trace[c][j].step = step}}

\* the receipt client c's call obtained, if it did
GotReceipt(c) == \E e \in Entries(c, "wait_for_transaction_receipt") : e.ok
ReceiptOf(c) ==
    (CHOOSE e \in Entries(c, "wait_for_transaction_receipt") : e.ok).receipt

\* a client starts an operation in this step and no other client's record changes
Starts(c) ==
    /\ started' = started + 1
    /\ pc[c] = "idle"
    /\ \A d \in Clients \ {c} :
          cur'[d] = cur[d] /\ result'[d] = result[d] /\ trace'[d] = trace[d]

\* C1, the state a mutating call without a signer ends in: the plain Exception of
\* the method's signer check, no step taken, no call in progress
C1_Outcome ==
    \A c \in Clients :
      (cur[c].op \in MutatingOps /\ account[c] = None) =>
         /\ pc[c] = "idle"
         /\ result[c] = Raise("Exception", SignerMessage(cur[c].op))
         /\ trace[c] = <<>>

\* C1, the step of such a call: the client's identity and the ledger are as before
C1_Frame ==
    \A c \in Clients :
      (Starts(c) /\ cur'[c].op \in MutatingOps /\ account[c] = None) =>
         /\ account' = account /\ lastKey' = lastKey /\ pc' = pc
         /\ chainVars' = chainVars

\* C1, what the code does: a mutating method called with no signer raises a plain
\* Exception whose message is the method's "Signer required for ..." text,
\* performs no network call and leaves the client and the ledger unchanged.
C1_NoSignerNoNetwork == []C1_Outcome /\ [][C1_Frame]_vars

\* C1 witness: a mutating call was made with no signer and raised
C1_Witness ==
    /\ cur["c1"].op = "score_and_resolve"
    /\ account["c1"] = None
    /\ result["c1"].kind = "raise"

\* C1: a mutating method called with no signer configured fails with
\* SignerRequiredError and performs no network call.
C1_Original ==
    \A c \in Clients :
      (cur[c].op \in MutatingOps /\ account[c] = None) =>
         /\ result[c].kind = "raise" /\ result[c].exc = "SignerRequiredError"
         /\ trace[c] = <<>>

\* score_and_resolve was called on client c with a signer configured
Scored(c) == cur[c].op = "score_and_resolve" /\ account[c] # None

\* a local failure of exception `exc`: raised with no step taken
FailedLocally(c, exc) ==
    /\ pc[c] = "idle"
    /\ result[c].kind = "raise" /\ result[c].exc = exc
    /\ trace[c] = <<>>

\* the call went on to the network: it is in progress or has taken a step
WentOn(c) == pc[c] # "idle" \/ Len(trace[c]) >= 1

\* C2, what the code does: with a signer configured, score_and_resolve fails before any
\* network call with ValueError for a number outside 0..100 (-1, 101, 100.5), with
\* TypeError for a str, and with the ABI encoder's Web3ValidationError for a
\* non-integer inside the range (50.5), which the range check lets through; the
\* scores 0 and 100 are accepted and the call goes on to submit the transaction.
C2_ScoreCheck ==
    \A c \in Clients :
      Scored(c) =>
        LET score == cur[c].args.score
        IN /\ score \in {IntScore(-1), IntScore(101), FloatScore(1005)}
                => /\ FailedLocally(c, "ValueError")
                   /\ result[c].msg = "Score must be between 0 and 100"
           /\ score = StrScore => FailedLocally(c, "TypeError")
           /\ score = FloatScore(505) => FailedLocally(c, "Web3ValidationError")
           /\ score \in {IntScore(0), IntScore(100)} =>
                /\ WentOn(c)
                /\ Len(trace[c]) >= 1 => trace[c][1].step = "gas_price"

\* C2 witness: the score 0 was accepted and its transaction submitted
C2_Witness ==
    /\ Scored("c1")
    /\ cur["c1"].args.score = IntScore(0)
    /\ \E e \in Entries("c1", "send_raw_transaction") : e.ok /\ e.raw.tx.data.args.score = 0

\* C2: with a signer configured, score_and_resolve with -1, 101 or a non-integer
\* fails with ValidationError before any network call; 0 and 100 go on to submit.
C2_Original ==
    \A c \in Clients :
      Scored(c) =>
        LET score == cur[c].args.score
        IN /\ score \notin {IntScore(0), IntScore(100)} => FailedLocally(c, "ValidationError")
           /\ score \in {IntScore(0), IntScore(100)} => WentOn(c)

\* C3: a mutating method never returns normally for a transaction whose receipt
\* reports failure (status 0); it raises TransactionError instead.
C3_RevertSurfaces ==
    \A c \in Clients :
      (cur[c].op \in MutatingOps /\ GotReceipt(c) /\ ReceiptOf(c).status = 0) =>
         /\ result[c].kind = "raise"
         /\ result[c].exc = "TransactionError"

\* the indices of the logs of a receipt that are the given event
EventAt(receipt, name) == {i \in 1..Len(receipt.logs) : receipt.logs[i].event = name}
First(S) == CHOOSE i \in S : \A j \in S : i <= j

\* C4: create_task returns the receipt's transaction hash and the taskId of the
\* first TaskCreated event of the receipt, or None when the receipt has none.
C4_CreateTaskResult ==
    \A c \in Clients :
      (cur[c].op = "create_task" /\ GotReceipt(c)) =>
        LET receipt == ReceiptOf(c)
            at == EventAt(receipt, "TaskCreated")
        IN /\ result[c].kind = "return"
           /\ result[c].value.txHash = [hex |-> receipt.transactionHash]
           /\ result[c].value.taskId =
                 IF at = {} THEN None ELSE [int |-> receipt.logs[First(at)].args.taskId]

\* C4 witness: a receipt with two TaskCreated events, the first one's id returned
C4_Witness ==
    /\ cur["c1"].op = "create_task"
    /\ GotReceipt("c1")
    /\ Cardinality(EventAt(ReceiptOf("c1"), "TaskCreated")) = 2
    /\ result["c1"].value.taskId = [int |-> 7]

\* an amount of wei in ether, as a float: 1.2 * 10^18 wei is 1.2
InEther(wei) ==
    CASE wei = Dec(12, 17) -> [float |-> Dec(12, -1)]
      [] wei = Dec(3, 17) -> [float |-> Dec(3, -1)]

\* C5: score_and_resolve returns the receipt's transaction hash and the payee and
\* refund amounts of the receipt's TaskResolved event, in ether; when the receipt
\* has no such event it returns normally with both amounts 0.0.
C5_ScoreResult ==
    \A c \in Clients :
      (cur[c].op = "score_and_resolve" /\ GotReceipt(c)) =>
        LET receipt == ReceiptOf(c)
            at == EventAt(receipt, "TaskResolved")
        IN /\ result[c].kind = "return"
           /\ result[c].value.txHash = [hex |-> receipt.transactionHash]
           /\ IF at = {}
              THEN /\ result[c].value.payeeAmount = [float |-> Dec(0, 0)]
                   /\ result[c].value.refundAmount = [float |-> Dec(0, 0)]
              ELSE LET args == receipt.logs[First(at)].args
                   IN /\ result[c].value.payeeAmount = InEther(args.payeeAmount)
                      /\ result[c].value.refundAmount = InEther(args.refundAmount)

\* C5 witness: a TaskResolved event was decoded into 1.2 and 0.3 ether
C5_Witness ==
    /\ cur["c1"].op = "score_and_resolve"
    /\ GotReceipt("c1")
    /\ EventAt(ReceiptOf("c1"), "TaskResolved") # {}
    /\ result["c1"].value.payeeAmount = [float |-> Dec(12, -1)]
    /\ result["c1"].value.refundAmount = [float |-> Dec(3, -1)]

\* the name the interface gives each status code
StatusNameOf(code) ==
    CASE code = 0 -> "Created"
      [] code = 1 -> "Submitted"
      [] code = 2 -> "Resolved"
      [] code = 3 -> "Cancelled"
      [] code = 4 -> "Unknown"

\* C6: get_task returns the status codes 0, 1, 2, 3 as Created, Submitted,
\* Resolved, Cancelled and every other code (4) as "Unknown", without raising; the
\* other nine positions of the tuple come back under their field names in
\* positional order (the amount, position 3, in ether).
C6_GetTaskDecoding ==
    \A c \in Clients :
      (cur[c].op = "get_task" /\ cur[c].task # None) =>
        LET task == cur[c].task.tuple
            got == result[c].value
        IN /\ result[c].kind = "return"
           /\ got.status = StatusNameOf(task[5])
           /\ got.payer = task[1] /\ got.payee = task[2]
           /\ task[3] = Dec(15, 17) /\ got.amount = [float |-> Dec(15, -1)]
           /\ got.description = task[4]
           /\ got.createdAt = task[6] /\ got.submittedAt = task[7]
           /\ got.deliverableHash = task[8]
           /\ got.score = task[9] /\ got.resolved = task[10]

\* C6 witness: the contract answered status code 4 and get_task returned
C6_Witness ==
    /\ cur["c1"].op = "get_task"
    /\ cur["c1"].task # None
    /\ cur["c1"].task.tuple[5] = 4
    /\ result["c1"].kind = "return"

\* C7, the state a read-only call ends in: its only network steps are the
\* contract call or the balance query, and it did not fail for want of a signer
C7_Outcome ==
    \A c \in Clients :
      cur[c].op \in ReadOps =>
         /\ pc[c] = "idle"
         /\ \A i \in 1..Len(trace[c]) : trace[c][i].step \in {"call", "get_balance"}
         /\ result[c].kind = "raise" => result[c].exc \in {"ConnectionError", "ValueError"}
         /\ (result[c].kind = "raise" /\ result[c].exc = "ValueError")
               => cur[c].op = "get_balance" /\ cur[c].args.address = BadAddress

\* C7, the step of a read-only call: the signing identity and the ledger are as before
C7_Frame ==
    \A c \in Clients :
      (Starts(c) /\ cur'[c].op \in ReadOps) =>
         /\ account' = account /\ lastKey' = lastKey /\ pc' = pc
         /\ chainVars' = chainVars

\* C7: get_task and get_balance work with or without a signer, submit no
\* transaction (no nonce fetch, no signing, no submit, no receipt poll) and leave
\* the signing identity and the ledger unchanged.
C7_ReadOnly == []C7_Outcome /\ [][C7_Frame]_vars

\* C7 witness: get_task returned on a client that has no signer
C7_Witness ==
    /\ cur["c1"].op = "get_task"
    /\ account["c1"] = None
    /\ result["c1"].kind = "return"
    /\ Len(trace["c1"]) = 1

\* the steps of a mutating call, in order
CallSteps ==
    <<"gas_price", "get_transaction_count", "sign_transaction",
      "send_raw_transaction", "wait_for_transaction_receipt", "decode">>

\* C8: a mutating call that passes its local checks takes its steps once each and
\* in the order gas price, nonce, sign, submit, wait, decode; the transaction it
\* signs and submits carries the gas price and the nonce the node answered in
\* this call; a failed step ends the call, so nothing is submitted twice.
C8_StepsInOrder ==
    \A c \in Clients :
      cur[c].op \in MutatingOps =>
         /\ Len(trace[c]) <= Len(CallSteps)
         /\ \A i \in 1..Len(trace[c]) : trace[c][i].step = CallSteps[i]
         /\ \A i \in 1..Len(trace[c]) : ~trace[c][i].ok => (i = Len(trace[c]) /\ pc[c] = "idle")
         /\ result[c].kind = "return" => StepNames(c) = CallSteps
         /\ Len(trace[c]) >= 3 =>
               /\ trace[c][3].tx.gasPrice = trace[c][1].val
               /\ trace[c][3].tx.nonce = trace[c][2].val
         /\ Len(trace[c]) >= 4 => trace[c][4].raw.tx = trace[c][3].tx

\* C8 witness: a call went through all six steps at a gas price of 2
C8_Witness ==
    /\ cur["c1"].op = "cancel_task"
    /\ result["c1"].kind = "return"
    /\ StepNames("c1") = CallSteps
    /\ trace["c1"][1].val = 2

\* C9: set_signer replaces the configured identity and makes no network call;
\* every nonce fetched, every transaction signed and every transaction submitted
\* afterwards is for the address and with the key of the latest set_signer.
C9_LatestSigner ==
    \A c \in Clients :
      /\ cur[c].op = "set_signer" => trace[c] = <<>> /\ pc[c] = "idle"
      /\ account[c] # None =>
            /\ account[c].key = lastKey[c]
            /\ account[c].address = [id |-> AddressOfKey(lastKey[c]), case |-> "checksum"]
      /\ \A e \in Entries(c, "get_transaction_count") :
            e.ok => e.addr.id = AddressOfKey(lastKey[c])
      /\ \A e \in Entries(c, "sign_transaction") :
            e.key = lastKey[c] /\ e.tx.from.id = AddressOfKey(lastKey[c])
      /\ \A e \in Entries(c, "send_raw_transaction") :
            e.raw.signedBy = lastKey[c] /\ e.raw.tx.from.id = AddressOfKey(lastKey[c])

\* C9 witness: a client constructed with k1 was given k2 and submitted a transaction
C9_Witness ==
    /\ account["c2"] # None /\ account["c2"].key = "k1"
    /\ lastKey["c1"] = "k2"
    /\ \E e \in Entries("c1", "send_raw_transaction") : e.ok

\* the (sender, nonce) of the transaction client c signed in its call
SignedNonce(c) ==
    {<<AddressOfKey(e.key), e.tx.nonce>> : e \in Entries(c, "sign_transaction")}

\* C10: two calls of the same identity may hold the same nonce, and then the
\* ledger gives a receipt to at most one of them; a call that begins after
\* another has its receipt never uses that call's nonce.
C10_Nonces ==
    /\ \A c, d \in Clients :
         (c # d /\ SignedNonce(c) \cap SignedNonce(d) # {})
            => ~(GotReceipt(c) /\ GotReceipt(d))
    /\ \A c \in Clients : cur[c].after \cap SignedNonce(c) = {}

\* C10 witness: both clients signed with the same nonce before either submitted;
\* one has its receipt, the other was refused
C10_Witness ==
    /\ SignedNonce("c1") \cap SignedNonce("c2") # {}
    /\ cur["c1"].after = {} /\ cur["c2"].after = {}
    /\ GotReceipt("c1")
    /\ result["c2"].kind = "raise" /\ result["c2"].exc = "ValueError"

====
